---- MODULE Spec2Model ----
(***************************************************************************)
(* Model of 0x02-redis_basic/exercise.py: class Cache (store, get,         *)
(* get_str, get_int), the decorators count_calls and call_history, and     *)
(* replay, running against one Redis database shared by all Cache objects. *)
(*                                                                         *)
(* Python values are records [t, v]: t is the Python type and v a sequence *)
(* of integers (code points of a str, bytes of a bytes object, <<n>> for   *)
(* an int, <<whole, tenths>> for a float).  Redis keys and values are      *)
(* byte sequences.                                                         *)
(*                                                                         *)
(* Note on the source: exercise.py applies @count_calls and @call_history  *)
(* at line 19-20, inside the class body, before the two decorators are     *)
(* defined at lines 56 and 71, so importing the file as it stands raises   *)
(* NameError.  The model is of the composition the file writes down        *)
(* (count_calls(call_history(store))), i.e. of the file with the           *)
(* decorators defined first.                                               *)
(*                                                                         *)
(* uuid.uuid4() is modelled as returning an identifier that was never      *)
(* generated before (the collision-free idealisation); identifiers are     *)
(* interchangeable, so they are taken in a fixed order.  A Redis command   *)
(* that fails raises in the client and leaves the database as it was.      *)
(***************************************************************************)
EXTENDS Integers, Sequences, FiniteSets, TLC

(* ---------------- bounds ---------------- *)
MaxCalls == 2
MaxSeqCalls == 3
MaxReadCalls == 2
NumCallers == 2
MaxInst == 2
MaxFail == 1
MaxFailCalls == 3

(* ---------------- Python values ---------------- *)
PyStr(s) == [t |-> "str", v |-> s]
PyBytes(b) == [t |-> "bytes", v |-> b]
PyInt(n) == [t |-> "int", v |-> <<n>>]
PyFloat(w, d) == [t |-> "float", v |-> <<w, d>>]
PyNone == [t |-> "None", v |-> <<>>]
Raised(e) == [t |-> e, v |-> <<>>]

IsRaised(x) == x.t \in {"UnicodeDecodeError", "ValueError", "ResponseError", "ConnectionError"}

Min(a, b) == IF a < b THEN a ELSE b

RECURSIVE Digits(_)
Digits(n) == IF n < 10 THEN <<48 + n>> ELSE Digits(n \div 10) \o <<48 + (n % 10)>>

(* str(n) / repr(n) of an int *)
IntRepr(n) == IF n < 0 THEN <<45>> \o Digits(0 - n) ELSE Digits(n)

HexDigit(d) == IF d < 10 THEN 48 + d ELSE 87 + d

HexEscape(n) == <<92, 120, HexDigit(n \div 16), HexDigit(n % 16)>>

Elems(s) == {s[i] : i \in 1..Len(s)}

(* the quote repr() picks: double quotes only if the text has ' and no " *)
QuoteOf(s) == IF 39 \in Elems(s) /\ 34 \notin Elems(s) THEN 34 ELSE 39

CommonEscape(ch, q) ==
    CASE ch = 92 -> <<92, 92>>
      [] ch = q -> <<92, q>>
      [] ch = 9 -> <<92, 116>>
      [] ch = 10 -> <<92, 110>>
      [] ch = 13 -> <<92, 114>>
      [] OTHER -> <<>>

(* repr() of one character of a str (code points up to 255) *)
StrCharRepr(ch, q) ==
    IF CommonEscape(ch, q) # <<>> THEN CommonEscape(ch, q)
    ELSE IF ch < 32 \/ ch = 127 \/ (ch >= 128 /\ ch <= 160) \/ ch = 173 THEN HexEscape(ch)
    ELSE <<ch>>

(* repr() of one byte of a bytes object *)
ByteRepr(b, q) ==
    IF CommonEscape(b, q) # <<>> THEN CommonEscape(b, q)
    ELSE IF b < 32 \/ b >= 127 THEN HexEscape(b)
    ELSE <<b>>

RECURSIVE StrBodyRepr(_, _)
StrBodyRepr(s, q) == IF s = <<>> THEN <<>> ELSE StrCharRepr(Head(s), q) \o StrBodyRepr(Tail(s), q)

RECURSIVE BytesBodyRepr(_, _)
BytesBodyRepr(s, q) == IF s = <<>> THEN <<>> ELSE ByteRepr(Head(s), q) \o BytesBodyRepr(Tail(s), q)

(* repr(x) as a str (sequence of code points) *)
Repr(x) ==
    CASE x.t = "str" -> <<QuoteOf(x.v)>> \o StrBodyRepr(x.v, QuoteOf(x.v)) \o <<QuoteOf(x.v)>>
      [] x.t = "bytes" -> <<98, QuoteOf(x.v)>> \o BytesBodyRepr(x.v, QuoteOf(x.v)) \o <<QuoteOf(x.v)>>
      [] x.t = "int" -> IntRepr(x.v[1])
      [] x.t = "float" -> IntRepr(x.v[1]) \o <<46>> \o Digits(x.v[2])
      [] OTHER -> <<78, 111, 110, 101>>

RECURSIVE ReprJoin(_)
ReprJoin(args) ==
    IF Len(args) = 1 THEN Repr(args[1])
    ELSE Repr(Head(args)) \o <<44, 32>> \o ReprJoin(Tail(args))

(* str(args) of a tuple of positional arguments *)
TupleStr(args) ==
    IF args = <<>> THEN <<40, 41>>
    ELSE IF Len(args) = 1 THEN <<40>> \o Repr(args[1]) \o <<44, 41>>
    ELSE <<40>> \o ReprJoin(args) \o <<41>>

(* ---------------- UTF-8 ---------------- *)
EncodeCp(cp) ==
    IF cp < 128 THEN <<cp>>
    ELSE IF cp < 2048 THEN <<192 + (cp \div 64), 128 + (cp % 64)>>
    ELSE IF cp < 65536 THEN <<224 + (cp \div 4096), 128 + ((cp \div 64) % 64), 128 + (cp % 64)>>
    ELSE <<240 + (cp \div 262144), 128 + ((cp \div 4096) % 64), 128 + ((cp \div 64) % 64), 128 + (cp % 64)>>

RECURSIVE encode_utf8(_)
encode_utf8(s) == IF s = <<>> THEN <<>> ELSE EncodeCp(Head(s)) \o encode_utf8(Tail(s))

IsCont(b) == b >= 128 /\ b <= 191

(* length of the well-formed UTF-8 sequence at the head of b, 0 if none *)
SeqLenAt(b) ==
    LET b0 == b[1] IN
    IF b0 < 128 THEN 1
    ELSE IF b0 >= 194 /\ b0 <= 223 /\ Len(b) >= 2 /\ IsCont(b[2]) THEN 2
    ELSE IF b0 >= 224 /\ b0 <= 239 /\ Len(b) >= 3 /\ IsCont(b[2]) /\ IsCont(b[3])
            /\ (b0 = 224 => b[2] >= 160) /\ (b0 = 237 => b[2] <= 159) THEN 3
    ELSE IF b0 >= 240 /\ b0 <= 244 /\ Len(b) >= 4 /\ IsCont(b[2]) /\ IsCont(b[3]) /\ IsCont(b[4])
            /\ (b0 = 240 => b[2] >= 144) /\ (b0 = 244 => b[2] <= 143) THEN 4
    ELSE 0

CpAt(b, n) ==
    CASE n = 1 -> b[1]
      [] n = 2 -> (b[1] - 192) * 64 + (b[2] - 128)
      [] n = 3 -> (b[1] - 224) * 4096 + (b[2] - 128) * 64 + (b[3] - 128)
      [] OTHER -> (b[1] - 240) * 262144 + (b[2] - 128) * 4096 + (b[3] - 128) * 64 + (b[4] - 128)

RECURSIVE ValidUtf8(_)
ValidUtf8(b) == b = <<>> \/ (SeqLenAt(b) > 0 /\ ValidUtf8(SubSeq(b, SeqLenAt(b) + 1, Len(b))))

RECURSIVE DecodeCps(_)
DecodeCps(b) ==
    IF b = <<>> THEN <<>>
    ELSE <<CpAt(b, SeqLenAt(b))>> \o DecodeCps(SubSeq(b, SeqLenAt(b) + 1, Len(b)))

(* bytes.decode("utf-8") *)
decode_utf8(b) == IF ValidUtf8(b) THEN PyStr(DecodeCps(b)) ELSE Raised("UnicodeDecodeError")

(* ---------------- int(bytes) ---------------- *)
IsSpace(b) == b \in {9, 10, 11, 12, 13, 32}
IsDigit(b) == b >= 48 /\ b <= 57

RECURSIVE LStrip(_)
LStrip(b) == IF b # <<>> /\ IsSpace(Head(b)) THEN LStrip(Tail(b)) ELSE b

RECURSIVE RStrip(_)
RStrip(b) == IF b # <<>> /\ IsSpace(b[Len(b)]) THEN RStrip(SubSeq(b, 1, Len(b) - 1)) ELSE b

(* digits with single underscores between them *)
ValidDigits(b) ==
    /\ b # <<>>
    /\ IsDigit(b[1]) /\ IsDigit(b[Len(b)])
    /\ \A i \in 1..Len(b) : IsDigit(b[i]) \/ b[i] = 95
    /\ \A i \in 1..(Len(b) - 1) : ~(b[i] = 95 /\ b[i + 1] = 95)

RECURSIVE DigitsValue(_, _)
DigitsValue(b, acc) ==
    IF b = <<>> THEN acc
    ELSE IF Head(b) = 95 THEN DigitsValue(Tail(b), acc)
    ELSE DigitsValue(Tail(b), acc * 10 + (Head(b) - 48))

(* int(b) for a bytes object b, base 10 *)
parse_int(b) ==
    LET s == RStrip(LStrip(b))
        signed == s # <<>> /\ s[1] \in {43, 45}
        body == IF signed THEN Tail(s) ELSE s
    IN  IF ~ValidDigits(body) THEN Raised("ValueError")
        ELSE IF signed /\ s[1] = 45 THEN PyInt(0 - DigitsValue(body, 0))
        ELSE PyInt(DigitsValue(body, 0))

(* ---------------- Redis client and database ---------------- *)
(* redis-py Encoder.encode: what the client sends for a Python value *)
RedisEncode(x) ==
    CASE x.t = "bytes" -> x.v
      [] x.t = "str" -> encode_utf8(x.v)
      [] x.t = "int" -> IntRepr(x.v[1])
      [] OTHER -> Repr(x)

EmptyDb == [strs |-> <<>>, lists |-> <<>>]

Drop(f, k) == [x \in (DOMAIN f) \ {k} |-> f[x]]

(* variant: the database is left as it is *)
r_flushdb_noop(db) == db

r_flushdb(db) == EmptyDb

r_exists(db, k) == k \in DOMAIN db.strs \/ k \in DOMAIN db.lists

r_get(db, k) ==
    IF k \in DOMAIN db.strs THEN PyBytes(db.strs[k])
    ELSE IF k \in DOMAIN db.lists THEN Raised("ResponseError")
    ELSE PyNone

r_set(db, k, val) == [strs |-> (k :> val) @@ db.strs, lists |-> Drop(db.lists, k)]

(* variant: DECR in place of INCR *)
r_decr(db, k) ==
    LET old == IF k \in DOMAIN db.strs THEN parse_int(db.strs[k]).v[1] ELSE 0
    IN  [db EXCEPT !.strs = (k :> IntRepr(old - 1)) @@ db.strs]

(* variant: SET k 1 in place of INCR *)
r_incr_set(db, k) == [db EXCEPT !.strs = (k :> IntRepr(1)) @@ db.strs]

(* INCR: an absent key counts as 0; the new value is stored in decimal *)
r_incr(db, k) ==
    LET old == IF k \in DOMAIN db.strs THEN parse_int(db.strs[k]).v[1] ELSE 0
    IN  [db EXCEPT !.strs = (k :> IntRepr(old + 1)) @@ db.strs]

(* variant: LPUSH, the new entry goes to the head of the list *)
r_lpush(db, k, val) ==
    LET old == IF k \in DOMAIN db.lists THEN db.lists[k] ELSE <<>>
    IN  [db EXCEPT !.lists = (k :> (<<val>> \o old)) @@ db.lists]

r_rpush(db, k, val) ==
    LET old == IF k \in DOMAIN db.lists THEN db.lists[k] ELSE <<>>
    IN  [db EXCEPT !.lists = (k :> Append(old, val)) @@ db.lists]

(* LRANGE k 0 -1 *)
r_lrange(db, k) == IF k \in DOMAIN db.lists THEN db.lists[k] ELSE <<>>

(* ---------------- names used by the instrumentation ---------------- *)
(* method.__qualname__ of Cache.store: "Cache.store" *)
QualName == <<67, 97, 99, 104, 101, 46, 115, 116, 111, 114, 101>>

(* f"{method.__qualname__}:inputs" and f"{method.__qualname__}:outputs" *)
InputKeyName == QualName \o <<58, 105, 110, 112, 117, 116, 115>>
OutputKeyName == QualName \o <<58, 111, 117, 116, 112, 117, 116, 115>>

(* a str key as the client sends it *)
KeyBytes(k) == encode_utf8(k)

(* variant: each Cache object keeps its own counter and histories *)
KeyOf_perinst(inst, name) == name \o <<35>> \o IntRepr(inst)

(* the key a wrapper uses when called on the Cache object number inst: it is built from *)
(* method.__qualname__ alone, self takes no part in it                                  *)
KeyOf(inst, name) == name

(* str(uuid.uuid4()): the identifiers, abbreviated to one hex letter each *)
Uuid(i) == <<96 + i>>

UUIDs == {Uuid(i) : i \in 1..MaxSeqCalls}

(* the calls made: store('é'), store(42), store(b'\xff') and store(data=1.5), each as *)
(* <<args, kwargs>> with kwargs holding the value bound to the name data              *)
CallInputs ==
    {<<(<<PyStr(<<233>>)>>), (<<>>)>>, <<(<<PyInt(42)>>), (<<>>)>>, <<(<<PyBytes(<<255>>)>>), (<<>>)>>,
     <<(<<>>), (<<PyFloat(1, 5)>>)>>}

(* the keys handed to get/get_str/get_int *)
KeyArgs == UUIDs \cup {QualName, InputKeyName, OutputKeyName}

Callers == 1..NumCallers

(* ---------------- Cache.get and the typed variants ---------------- *)
(* variant: an error of the transform is swallowed and None is returned *)
ApplyFn_swallow(fn, data) ==
    CASE fn = "decode" -> (IF ValidUtf8(data.v) THEN decode_utf8(data.v) ELSE PyNone)
      [] fn = "int" -> (IF IsRaised(parse_int(data.v)) THEN PyNone ELSE parse_int(data.v))
      [] OTHER -> data

(* fn(data) of Cache.get, for the two transforms the class passes and for none *)
ApplyFn(fn, data) ==
    CASE fn = "decode" -> decode_utf8(data.v)
      [] fn = "int" -> parse_int(data.v)
      [] OTHER -> data

(* variant: the transform is applied without the test for None *)
get_unchecked(db, key, fn) ==
    LET data == r_get(db, KeyBytes(key))
    IN  IF IsRaised(data) THEN data
        ELSE IF fn # "None" THEN (IF data = PyNone THEN Raised("ValueError") ELSE ApplyFn(fn, data))
        ELSE data

get(db, key, fn) ==
    LET data == r_get(db, KeyBytes(key))
    IN  IF data = PyNone THEN PyNone
        ELSE IF IsRaised(data) THEN data
        ELSE IF fn # "None" THEN ApplyFn(fn, data)
        ELSE data

get_str(db, key) == get(db, key, "decode")

get_int(db, key) == get(db, key, "int")

Retrieve(op, db, key) ==
    CASE op = "get_str" -> get_str(db, key)
      [] op = "get_int" -> get_int(db, key)
      [] OTHER -> get(db, key, "None")

(* ---------------- the decorated store ---------------- *)
(* the Redis commands one call issues, in order *)
store_body == <<"set">>

(* variant: the output is pushed before the method runs and the input after it *)
call_history_swapped(method) == <<"rpush_out">> \o method \o <<"rpush_in">>

call_history(method) == <<"rpush_in">> \o method \o <<"rpush_out">>

(* variant: the wrapper counts after the method has returned *)
count_calls_after(method) == method \o <<"incr">>

(* variant: the wrapper calls the method without counting *)
count_calls_skip(method) == method

count_calls(method) == <<"incr">> \o method

(* variant: the decorators stacked the other way round *)
StoreSteps_swapped == call_history(count_calls(store_body))

StoreSteps == count_calls(call_history(store_body))

(* ---------------- replay ---------------- *)
(* " was called " and " times:" *)
WasCalled == <<32, 119, 97, 115, 32, 99, 97, 108, 108, 101, 100, 32>>
Times == <<32, 116, 105, 109, 101, 115, 58>>

ReplayHeader(inputs) == QualName \o WasCalled \o IntRepr(Len(inputs)) \o Times

(* one printed pair: qualname, "(", "*", the input text, ") -> ", the output text *)
ReplayLine(inp, out) ==
    QualName \o <<40, 42>> \o decode_utf8(inp).v \o <<41, 32, 45, 62, 32>> \o decode_utf8(out).v

(* variant: zip_longest, the missing side left empty *)
Zip_longest(inputs, outputs) ==
    [i \in 1..(IF Len(inputs) > Len(outputs) THEN Len(inputs) ELSE Len(outputs)) |->
        <<IF i <= Len(inputs) THEN inputs[i] ELSE <<>>, IF i <= Len(outputs) THEN outputs[i] ELSE <<>> >>]

(* zip(inputs, outputs) *)
Zip(inputs, outputs) == [i \in 1..Min(Len(inputs), Len(outputs)) |-> <<inputs[i], outputs[i]>>]

(* the lines replay prints for the two lists it read; a decode error ends it *)
ReplayPrint(inputs, outputs) ==
    LET pairs == Zip(inputs, outputs)
        bad == {i \in 1..Len(pairs) : ~ValidUtf8(pairs[i][1]) \/ ~ValidUtf8(pairs[i][2])}
        upto == IF bad = {} THEN Len(pairs) ELSE (CHOOSE i \in bad : \A j \in bad : i <= j) - 1
    IN  [lines |-> <<ReplayHeader(inputs)>> \o [i \in 1..upto |-> ReplayLine(pairs[i][1], pairs[i][2])],
         error |-> bad # {}]

(* ---------------- state ---------------- *)
VARIABLES redis, proc, rp, calls, issued, ninst, nfail, last

vars == <<redis, proc, rp, calls, issued, ninst, nfail, last>>

IdleProc == [pc |-> "idle", at |-> 0, id |-> 0, key |-> <<>>]

IdleReplay == [pc |-> "idle", inputs |-> <<>>]

NoLast == [op |-> "none", key |-> <<>>, result |-> PyNone, inputs |-> <<>>, outputs |-> <<>>,
           printed |-> <<>>, error |-> FALSE]

(* after Cache(): a connection and a flushed database *)
Init ==
    /\ redis = r_flushdb(EmptyDb)
    /\ proc = [c \in Callers |-> IdleProc]
    /\ rp = IdleReplay
    /\ calls = <<>>
    /\ issued = {}
    /\ ninst = 1
    /\ nfail = 0
    /\ last = NoLast

(* the data parameter of a call *)
DataOf(call) == IF call.args # <<>> THEN call.args[1] ELSE call.kwargs[1]

(* Cache.__init__ of a further object on the same database *)
Construct ==
    /\ ninst < MaxInst
    /\ redis' = r_flushdb(redis)
    /\ ninst' = ninst + 1
    /\ last' = NoLast
    /\ UNCHANGED <<proc, rp, calls, issued, nfail>>

(* variant: the key is generated once and used by every call *)
uuid4_fixed(used) == Uuid(1)

(* str(uuid.uuid4()): an identifier not in issued *)
uuid4(used) == Uuid(Cardinality(used) + 1)

(* a caller enters the wrapper of store, through the Cache object number inst *)
StoreCall(c, inst, in) ==
    /\ proc[c].pc = "idle"
    /\ inst \in 1..ninst
    /\ calls' = Append(calls, [epoch |-> ninst, inst |-> inst, args |-> in[1], kwargs |-> in[2],
                               status |-> "running", ret |-> PyNone, failed |-> "none",
                               key |-> <<>>, done |-> <<>>, era |-> <<>>])
    /\ proc' = [proc EXCEPT ![c] = [IdleProc EXCEPT !.pc = "run", !.at = 1, !.id = Len(calls) + 1]]
    /\ last' = NoLast
    /\ UNCHANGED <<redis, rp, issued, ninst, nfail>>

(* the command of the current step was applied: go on, or return the key.  The call's entry *)
(* in calls notes the command (done), the number of Cache objects at that moment (era) and   *)
(* the key once generated.                                                                   *)
Advance(c, key) ==
    LET noted == [calls[proc[c].id] EXCEPT !.done = Append(@, StoreSteps[proc[c].at]),
                                           !.era = Append(@, ninst), !.key = key]
    IN  IF proc[c].at < Len(StoreSteps)
        THEN /\ proc' = [proc EXCEPT ![c].at = @ + 1, ![c].key = key]
             /\ calls' = [calls EXCEPT ![proc[c].id] = noted]
        ELSE /\ proc' = [proc EXCEPT ![c] = IdleProc]
             /\ calls' = [calls EXCEPT ![proc[c].id] = [noted EXCEPT !.status = "returned", !.ret = PyStr(key)]]

AtStep(c, step) == proc[c].pc = "run" /\ StoreSteps[proc[c].at] = step

(* count_calls.wrapper: self._redis.incr(key) *)
Incr(c) ==
    /\ AtStep(c, "incr")
    /\ redis' = r_incr(redis, KeyBytes(KeyOf(calls[proc[c].id].inst, QualName)))
    /\ Advance(c, proc[c].key)
    /\ last' = NoLast
    /\ UNCHANGED <<rp, issued, ninst, nfail>>

(* call_history.wrapper: self._redis.rpush(input_key, str(args)) *)
RpushIn(c) ==
    /\ AtStep(c, "rpush_in")
    /\ redis' = r_rpush(redis, KeyBytes(KeyOf(calls[proc[c].id].inst, InputKeyName)),
                      RedisEncode(PyStr(TupleStr(calls[proc[c].id].args))))
    /\ Advance(c, proc[c].key)
    /\ last' = NoLast
    /\ UNCHANGED <<rp, issued, ninst, nfail>>

(* Cache.store: key = str(uuid.uuid4()); self._redis.set(key, data) *)
Set(c) ==
    /\ AtStep(c, "set")
    /\ LET key == uuid4(issued)
       IN  /\ redis' = r_set(redis, KeyBytes(key), RedisEncode(DataOf(calls[proc[c].id])))
           /\ issued' = issued \cup {key}
           /\ Advance(c, key)
    /\ last' = NoLast
    /\ UNCHANGED <<rp, ninst, nfail>>

(* call_history.wrapper: self._redis.rpush(output_key, output) *)
RpushOut(c) ==
    /\ AtStep(c, "rpush_out")
    /\ redis' = r_rpush(redis, KeyBytes(KeyOf(calls[proc[c].id].inst, OutputKeyName)), RedisEncode(PyStr(proc[c].key)))
    /\ Advance(c, proc[c].key)
    /\ last' = NoLast
    /\ UNCHANGED <<rp, issued, ninst, nfail>>

(* variant: the wrappers undo on an exception what the call has applied: the counter is *)
(* decremented, the last input entry is removed and the record is deleted              *)
Fail_rollback(c) ==
    /\ proc[c].pc = "run"
    /\ nfail < MaxFail
    /\ nfail' = nfail + 1
    /\ calls' = [calls EXCEPT ![proc[c].id].status = "raised", ![proc[c].id].failed = StoreSteps[proc[c].at]]
    /\ proc' = [proc EXCEPT ![c] = IdleProc]
    /\ last' = NoLast
    /\ LET applied == calls[proc[c].id].done
           has(step) == \E j \in 1..Len(applied) : applied[j] = step
           ck == KeyBytes(QualName)
           ik == KeyBytes(InputKeyName)
           rk == KeyBytes(proc[c].key)
           strs1 == IF has("incr") /\ ck \in DOMAIN redis.strs
                    THEN (ck :> IntRepr(parse_int(redis.strs[ck]).v[1] - 1)) @@ redis.strs
                    ELSE redis.strs
           strs2 == IF has("set") THEN [k \in DOMAIN strs1 \ {rk} |-> strs1[k]] ELSE strs1
           lists1 == IF has("rpush_in") /\ ik \in DOMAIN redis.lists /\ redis.lists[ik] # <<>>
                     THEN (ik :> SubSeq(redis.lists[ik], 1, Len(redis.lists[ik]) - 1)) @@ redis.lists
                     ELSE redis.lists
       IN  redis' = [strs |-> strs2, lists |-> lists1]
    /\ UNCHANGED <<rp, issued, ninst>>

(* the Redis command of the current step raises: the exception leaves both wrappers *)
Fail(c) ==
    /\ proc[c].pc = "run"
    /\ nfail < MaxFail
    /\ nfail' = nfail + 1
    /\ calls' = [calls EXCEPT ![proc[c].id].status = "raised", ![proc[c].id].failed = StoreSteps[proc[c].at]]
    /\ proc' = [proc EXCEPT ![c] = IdleProc]
    /\ last' = NoLast
    /\ UNCHANGED <<redis, rp, issued, ninst>>

(* variant: retrieval is counted like store, under the same counter key *)
Get_counted(op, key) ==
    /\ rp.pc = "idle"
    /\ last' = [NoLast EXCEPT !.op = op, !.key = key, !.result = Retrieve(op, redis, key)]
    /\ redis' = r_incr(redis, KeyBytes(QualName))
    /\ UNCHANGED <<proc, rp, calls, issued, ninst, nfail>>

(* Cache.get, get_str, get_int *)
Get(op, key) ==
    /\ rp.pc = "idle"
    /\ last' = [NoLast EXCEPT !.op = op, !.key = key, !.result = Retrieve(op, redis, key)]
    /\ UNCHANGED <<redis, proc, rp, calls, issued, ninst, nfail>>

(* replay: inputs = redis_instance.lrange(input_key, 0, -1) *)
ReplayInputs ==
    /\ rp.pc = "idle"
    /\ rp' = [pc |-> "read", inputs |-> r_lrange(redis, KeyBytes(InputKeyName))]
    /\ last' = NoLast
    /\ UNCHANGED <<redis, proc, calls, issued, ninst, nfail>>

(* replay: outputs = redis_instance.lrange(output_key, 0, -1), then the printing *)
ReplayOutputs ==
    /\ rp.pc = "read"
    /\ LET outputs == r_lrange(redis, KeyBytes(OutputKeyName))
           out == ReplayPrint(rp.inputs, outputs)
       IN  last' = [NoLast EXCEPT !.op = "replay", !.inputs = rp.inputs, !.outputs = outputs,
                                  !.printed = out.lines, !.error = out.error]
    /\ rp' = IdleReplay
    /\ UNCHANGED <<redis, proc, calls, issued, ninst, nfail>>

RetrievalOps == {"get", "get_str", "get_int"}

(* concurrent callers of store through the newest Cache object, objects constructed at any *)
(* moment, commands that may fail                                                          *)
Next ==
    \/ Construct
    \/ \E c \in Callers, in \in CallInputs : Len(calls) < MaxCalls /\ StoreCall(c, ninst, in)
    \/ \E c \in Callers : Incr(c)
    \/ \E c \in Callers : RpushIn(c)
    \/ \E c \in Callers : Set(c)
    \/ \E c \in Callers : RpushOut(c)
    \/ \E c \in Callers : Fail(c)

Spec == Init /\ [][Next]_vars

(* one caller of store, using the newest Cache object, a reader (get, get_str, get_int,  *)
(* replay) beside it, and objects constructed at any moment; no command fails            *)
ReadNext ==
    \/ Construct
    \/ \E in \in CallInputs : Len(calls) < MaxReadCalls /\ StoreCall(1, ninst, in)
    \/ Incr(1)
    \/ RpushIn(1)
    \/ Set(1)
    \/ RpushOut(1)
    \/ \E op \in RetrievalOps, key \in KeyArgs : Get(op, key)
    \/ ReplayInputs
    \/ ReplayOutputs

ReadSpec == Init /\ [][ReadNext]_vars

SeqIdle == proc[1].pc = "idle" /\ rp.pc = "idle"

(* one thread does everything, through any of the Cache objects, and no command fails *)
SeqNext ==
    \/ SeqIdle /\ Construct
    \/ \E inst \in 1..MaxInst, in \in CallInputs : SeqIdle /\ Len(calls) < MaxSeqCalls /\ StoreCall(1, inst, in)
    \/ Incr(1)
    \/ RpushIn(1)
    \/ Set(1)
    \/ RpushOut(1)
    \/ \E op \in RetrievalOps, key \in KeyArgs : SeqIdle /\ Get(op, key)
    \/ SeqIdle /\ ReplayInputs
    \/ ReplayOutputs

SeqSpec == Init /\ [][SeqNext]_vars

(* one thread calls store through the newest Cache object, constructs further objects *)
(* and runs replay, and commands may fail                                             *)
FailNext ==
    \/ SeqIdle /\ Construct
    \/ \E in \in CallInputs : SeqIdle /\ Len(calls) < MaxFailCalls /\ StoreCall(1, ninst, in)
    \/ Incr(1)
    \/ RpushIn(1)
    \/ Set(1)
    \/ RpushOut(1)
    \/ Fail(1)
    \/ SeqIdle /\ ReplayInputs
    \/ ReplayOutputs

FailSpec == Init /\ [][FailNext]_vars

(* ---------------- what the claims observe ---------------- *)
(* the call counter: the integer under the qualified name, 0 when the key is absent *)
Counter(db) ==
    LET r == r_get(db, KeyBytes(QualName))
    IN  IF r = PyNone THEN 0 ELSE parse_int(r.v).v[1]

InList(db) == r_lrange(db, KeyBytes(InputKeyName))

OutList(db) == r_lrange(db, KeyBytes(OutputKeyName))

(* the calls entered since the last construction, in the order they were made *)
NowCalls == SelectSeq(calls, LAMBDA call : call.epoch = ninst)

Did(call, step) == \E j \in 1..Len(call.done) : call.done[j] = step

(* the call applied the step since the last construction *)
DidNow(call, step) == \E j \in 1..Len(call.done) : call.done[j] = step /\ call.era[j] = ninst

(* the text recorded for a tuple of arguments, as the list holds it *)
Recorded(args) == encode_utf8(TupleStr(args))

(* ---------------- C1 ---------------- *)
(* C1: once the single thread has made n failure-free calls to store since the last *)
(* construction and is idle again, the counter under "Cache.store" equals n.         *)
C1_CounterEqualsCalls ==
    proc[1].pc = "idle" => Counter(redis) = Len(NowCalls)

(* one call before the second construction, two after it, the stored counter is "2" *)
C1_Witness ==
    /\ proc[1].pc = "idle"
    /\ Len(calls) = 3 /\ Len(NowCalls) = 2
    /\ KeyBytes(QualName) \in DOMAIN redis.strs
    /\ redis.strs[KeyBytes(QualName)] = <<50>>

(* ---------------- C2 ---------------- *)
(* every argument value the caller passed, positional or by keyword *)
PassedArgs(call) == call.args \o call.kwargs

(* C2 as stated: after n single-threaded failure-free calls both lists have length n, the   *)
(* i-th input entry is the text of the arguments passed to the i-th call and the i-th       *)
(* output entry is the key it returned.                                                     *)
C2_Original ==
    proc[1].pc = "idle" =>
        /\ Len(InList(redis)) = Len(NowCalls)
        /\ Len(OutList(redis)) = Len(NowCalls)
        /\ \A i \in 1..Len(NowCalls) :
              /\ InList(redis)[i] = Recorded(PassedArgs(NowCalls[i]))
              /\ OutList(redis)[i] = encode_utf8(NowCalls[i].ret.v)

(* C2 amended: after n single-threaded failure-free calls both lists have length n, the     *)
(* i-th input entry is str() of the tuple of positional arguments of the i-th call (so "()" *)
(* for store(data=v)) and the i-th output entry is the key the i-th call returned.          *)
C2_HistoryPairsCalls ==
    proc[1].pc = "idle" =>
        /\ Len(InList(redis)) = Len(NowCalls)
        /\ Len(OutList(redis)) = Len(NowCalls)
        /\ \A i \in 1..Len(NowCalls) :
              /\ NowCalls[i].status = "returned"
              /\ InList(redis)[i] = Recorded(NowCalls[i].args)
              /\ OutList(redis)[i] = encode_utf8(NowCalls[i].ret.v)

(* store(data=1.5) then store('é'): the inputs are "()" and "('é',)", the outputs the keys a, b *)
C2_Witness ==
    /\ proc[1].pc = "idle"
    /\ Len(NowCalls) = 2
    /\ NowCalls[1].kwargs = <<PyFloat(1, 5)>>
    /\ InList(redis) = <<(<<40, 41>>), (<<40, 39, 195, 169, 39, 44, 41>>)>>
    /\ OutList(redis) = <<(<<97>>), (<<98>>)>>
    /\ NowCalls[1].ret = PyStr(<<97>>) /\ NowCalls[2].ret = PyStr(<<98>>)

(* ---------------- C3 ---------------- *)
(* C3: a key returned by a call store(v) made since the last construction retrieves v:   *)
(* get gives the bytes Redis holds for v (v itself for bytes), get_str gives a str v back *)
(* and get_int gives an int v back; and no two calls ever return the same key.           *)
C3_RoundTrip ==
    /\ \A i, j \in 1..Len(calls) :
          (i # j /\ calls[i].status = "returned" /\ calls[j].status = "returned") => calls[i].ret # calls[j].ret
    /\ last.op \in RetrievalOps =>
          \A i \in 1..Len(calls) :
              (calls[i].status = "returned" /\ calls[i].epoch = ninst /\ calls[i].ret.v = last.key) =>
                  LET v == DataOf(calls[i]) IN
                  /\ last.op = "get" => last.result = PyBytes(RedisEncode(v))
                  /\ (last.op = "get" /\ v.t = "bytes") => last.result = v
                  /\ (last.op = "get_str" /\ v.t = "str") => last.result = v
                  /\ (last.op = "get_int" /\ v.t = "int") => last.result = v

(* store('é') returned a, store(42) returned b afterwards, and get_str(a) still gives 'é' *)
C3_Witness ==
    /\ Len(calls) = 2
    /\ calls[1].status = "returned" /\ calls[1].ret = PyStr(<<97>>) /\ calls[1].args = <<PyStr(<<233>>)>>
    /\ calls[2].status = "returned" /\ calls[2].ret = PyStr(<<98>>) /\ calls[2].args = <<PyInt(42)>>
    /\ calls[1].epoch = ninst
    /\ last.op = "get_str" /\ last.key = <<97>> /\ last.result = PyStr(<<233>>)

(* ---------------- C4 ---------------- *)
InstrKeys == {QualName, InputKeyName, OutputKeyName}

(* the keys store calls have returned *)
ReturnedKeys == {calls[i].ret.v : i \in {j \in 1..Len(calls) : calls[j].status = "returned"}}

(* the keys under which a call wrote its record since the last construction *)
WrittenNow == {calls[i].key : i \in {j \in 1..Len(calls) : DidNow(calls[j], "set")}}

(* C4 as stated: get, get_str and get_int yield None for every key no store call has *)
(* returned, and never yield None for a key a store call did return.                 *)
C4_Original ==
    last.op \in RetrievalOps =>
        /\ last.key \notin ReturnedKeys => last.result = PyNone
        /\ last.key \in ReturnedKeys => last.result # PyNone

(* C4 amended: get, get_str and get_int yield None, without applying the transform and   *)
(* without failing, for every key that is not one of the three instrumentation keys and  *)
(* under which no store call has written a record since the last construction; they      *)
(* never yield None for a key whose record was written since the last construction.      *)
C4_MissingKey ==
    last.op \in RetrievalOps =>
        /\ (last.key \notin InstrKeys /\ last.key \notin WrittenNow) => last.result = PyNone
        /\ last.key \in WrittenNow => last.result # PyNone

(* a record exists under a, and get_int on a key no call generated gives None *)
C4_Witness ==
    /\ Len(calls) >= 1 /\ calls[1].status = "returned" /\ <<97>> \in WrittenNow
    /\ last.op = "get_int" /\ last.key \notin InstrKeys /\ last.key \notin issued
    /\ last.result = PyNone

(* ---------------- C5 ---------------- *)
(* C5: right after any construction the counter key is absent (reads as 0), both history *)
(* lists are empty and every key a store call returned before retrieves None through     *)
(* get, get_str and get_int.                                                             *)
C5_ConstructResets ==
    [][ninst' # ninst =>
          /\ Counter(redis') = 0
          /\ ~r_exists(redis', KeyBytes(QualName))
          /\ InList(redis') = <<>>
          /\ OutList(redis') = <<>>
          /\ \A k \in ReturnedKeys : \A op \in RetrievalOps : Retrieve(op, redis', k) = PyNone]_vars

(* two calls returned their keys through the first object, then the second object was constructed *)
C5_Witness ==
    /\ ninst = 2
    /\ Len(calls) = 2
    /\ \A i \in 1..2 : calls[i].status = "returned" /\ calls[i].era = <<1, 1, 1, 1>>
    /\ redis = EmptyDb

(* ---------------- C6 ---------------- *)
(* C6: with a single thread, a call appends its input record only when every earlier call *)
(* has appended both its records and the two lists are equally long, and appends its      *)
(* output record only after its own input record, when the input list is one longer.      *)
C6_Alternating ==
    [][\A i \in 1..Len(calls) :
          /\ (Did(calls'[i], "rpush_in") /\ ~Did(calls[i], "rpush_in")) =>
                /\ \A j \in 1..(i - 1) : Did(calls[j], "rpush_in") /\ Did(calls[j], "rpush_out")
                /\ Len(InList(redis)) = Len(OutList(redis))
                /\ InList(redis') = Append(InList(redis), Recorded(calls[i].args))
                /\ OutList(redis') = OutList(redis)
          /\ (Did(calls'[i], "rpush_out") /\ ~Did(calls[i], "rpush_out")) =>
                /\ Did(calls[i], "rpush_in")
                /\ Len(InList(redis)) = Len(OutList(redis)) + 1
                /\ OutList(redis') = Append(OutList(redis), encode_utf8(calls'[i].key))
                /\ InList(redis') = InList(redis)]_vars

(* the second call has appended its input, after both records of the first, and not yet its output *)
C6_Witness ==
    /\ Len(NowCalls) = 2
    /\ NowCalls[1].status = "returned"
    /\ Did(NowCalls[2], "rpush_in") /\ ~Did(NowCalls[2], "rpush_out")
    /\ Len(InList(redis)) = 2 /\ Len(OutList(redis)) = 1

(* ---------------- C7 ---------------- *)
FixedOrder == <<"incr", "rpush_in", "set", "rpush_out">>

IsPrefix(a, b) == Len(a) <= Len(b) /\ SubSeq(b, 1, Len(a)) = a

HowManyNow(step) == Cardinality({i \in 1..Len(calls) : DidNow(calls[i], step)})

(* C7: the commands a call has applied are always an initial part of: counter increment, *)
(* input append, record write, output append; and the database shows exactly the         *)
(* commands applied since the last construction.                                         *)
C7_StepOrder ==
    /\ \A i \in 1..Len(calls) : IsPrefix(calls[i].done, FixedOrder)
    /\ Counter(redis) = HowManyNow("incr")
    /\ Len(InList(redis)) = HowManyNow("rpush_in")
    /\ Len(OutList(redis)) = HowManyNow("rpush_out")
    /\ \A i \in 1..Len(calls) :
          Did(calls[i], "set") => (DidNow(calls[i], "set") <=> r_exists(redis, KeyBytes(calls[i].key)))

(* one call has applied all four commands while another has applied the first two *)
C7_Witness ==
    /\ Len(calls) = 2
    /\ calls[1].done = FixedOrder
    /\ calls[2].done = <<"incr", "rpush_in">>
    /\ calls[2].epoch = calls[1].epoch
    /\ Counter(redis) = 2 /\ Len(InList(redis)) = 2 /\ Len(OutList(redis)) = 1

(* ---------------- C8 ---------------- *)
AllReturnedNow == \A i \in 1..Len(calls) : calls[i].status = "returned" /\ calls[i].epoch = ninst

Occurrences(list, x) == Cardinality({i \in 1..Len(list) : list[i] = x})

(* C8: when all the calls made since the construction have returned, however they were     *)
(* interleaved, the counter and the lengths of both lists equal the number of calls, the    *)
(* input list holds the recorded arguments of the calls and the output list their keys (in  *)
(* some order, not necessarily the same one: see C8_Witness).                               *)
C8_ConcurrentTotals ==
    AllReturnedNow =>
        /\ Counter(redis) = Len(calls)
        /\ Len(InList(redis)) = Len(calls)
        /\ Len(OutList(redis)) = Len(calls)
        /\ \A i \in 1..Len(calls) :
              /\ Occurrences(OutList(redis), encode_utf8(calls[i].ret.v)) = 1
              /\ Occurrences(InList(redis), Recorded(calls[i].args))
                    = Cardinality({j \in 1..Len(calls) : Recorded(calls[j].args) = Recorded(calls[i].args)})

(* both calls returned, the lists are equally long, the counter is 2, and at some position *)
(* the output is not the key of the one call whose arguments are the input at that position *)
C8_Witness ==
    /\ Len(calls) = 2 /\ AllReturnedNow
    /\ Counter(redis) = 2
    /\ Len(InList(redis)) = 2 /\ Len(OutList(redis)) = 2
    /\ \E p \in 1..2, i \in 1..2 :
          /\ InList(redis)[p] = Recorded(calls[i].args)
          /\ \A j \in 1..2 : j # i => Recorded(calls[j].args) # InList(redis)[p]
          /\ OutList(redis)[p] # encode_utf8(calls[i].ret.v)

(* ---------------- C9 ---------------- *)
(* C9: replay prints the header with the length of the input list it read, then exactly  *)
(* min(len(inputs), len(outputs)) lines, the i-th pairing the i-th input with the i-th   *)
(* output, without error; for empty lists it prints only the header with 0.              *)
C9_Replay ==
    last.op = "replay" =>
        LET n == Min(Len(last.inputs), Len(last.outputs)) IN
        /\ ~last.error
        /\ Len(last.printed) = 1 + n
        /\ last.printed[1] = QualName \o WasCalled \o IntRepr(Len(last.inputs)) \o Times
        /\ \A i \in 1..n :
              last.printed[i + 1] = QualName \o <<40, 42>> \o DecodeCps(last.inputs[i])
                                       \o <<41, 32, 45, 62, 32>> \o DecodeCps(last.outputs[i])
        /\ last.inputs = <<>> =>
              last.printed = <<QualName \o <<32, 119, 97, 115, 32, 99, 97, 108, 108, 101, 100, 32, 48,
                                             32, 116, 105, 109, 101, 115, 58>> >>

(* two inputs and one output were read: the header says 2 and the one line printed pairs *)
(* the input text ('é',) with the output text a                                          *)
C9_Witness ==
    /\ last.op = "replay"
    /\ Len(last.inputs) = 2 /\ Len(last.outputs) = 1
    /\ Len(last.printed) = 2
    /\ last.printed[1] = QualName \o WasCalled \o <<50>> \o Times
    /\ last.printed[2] = QualName \o <<40, 42, 40, 39, 233, 39, 44, 41, 41, 32, 45, 62, 32, 97>>

(* ---------------- C10 ---------------- *)
(* C10: when the counter increment of a call raises, the call ends raised without a key, *)
(* it had applied no command before, and the database is as it was.                     *)
C10_IncrFailure ==
    [][\A i \in 1..Len(calls) :
          (calls[i].status = "running" /\ calls'[i].failed = "incr") =>
              /\ calls'[i].status = "raised"
              /\ calls'[i].ret = PyNone /\ calls'[i].key = <<>>
              /\ calls[i].done = <<>> /\ calls'[i].done = <<>>
              /\ redis' = redis]_vars

(* a call failed at the increment while an earlier call's records are in the database *)
C10_Witness ==
    /\ Len(calls) = 2
    /\ calls[1].status = "returned" /\ calls[1].epoch = ninst
    /\ calls[2].status = "raised" /\ calls[2].failed = "incr"
    /\ Counter(redis) = 1 /\ Len(InList(redis)) = 1 /\ Len(OutList(redis)) = 1

(* ---------------- C11 ---------------- *)
(* the calls entered so far whose increment was applied since the last construction *)
Incremented == {i \in 1..Len(calls) : DidNow(calls[i], "incr")}

(* C11: the counter counts attempts.  A call that raises at a step after its increment   *)
(* leaves the counter as it was, and in every state the counter equals the number of     *)
(* calls whose increment was applied since the last construction, whether they returned, *)
(* raised or are still running.                                                          *)
C11_CountsAttempts ==
    [][/\ Counter(redis') = Cardinality({i \in 1..Len(calls') : \E j \in 1..Len(calls'[i].done) :
                                             calls'[i].done[j] = "incr" /\ calls'[i].era[j] = ninst'})
       /\ \A i \in 1..Len(calls) :
             (calls[i].status = "running" /\ calls'[i].status = "raised" /\ Did(calls[i], "incr")) =>
                 /\ calls'[i].failed \in {"rpush_in", "set", "rpush_out"}
                 /\ Counter(redis') = Counter(redis)
                 /\ i \in Incremented => Counter(redis') = Cardinality(Incremented)]_vars

(* one call returned and one raised at the record write: the counter is 2 *)
C11_Witness ==
    /\ Len(calls) = 2
    /\ calls[1].status = "returned" /\ calls[1].epoch = ninst
    /\ calls[2].status = "raised" /\ calls[2].failed = "set" /\ calls[2].epoch = ninst
    /\ Counter(redis) = 2

(* ---------------- C12 ---------------- *)
TypedOps == {"get_str", "get_int"}

(* the key is present: it holds a string value or a list *)
Present(db, key) == KeyBytes(key) \in DOMAIN db.strs \cup DOMAIN db.lists

(* the key holds a string value: a record or the counter *)
HoldsText(db, key) == KeyBytes(key) \in DOMAIN db.strs

(* C12 as stated: get_str and get_int of a present key either return the decoded value *)
(* or fail with the decoding or parsing error.                                        *)
C12_Original ==
    (last.op \in TypedOps /\ Present(redis, last.key)) =>
        \/ last.op = "get_str" /\ last.result.t \in {"str", "UnicodeDecodeError"}
        \/ last.op = "get_int" /\ last.result.t \in {"int", "ValueError"}

(* C12 amended: get_str and get_int of a key holding a string value (a record or the    *)
(* counter) either return the decoded value or fail with the decoding or parsing error: *)
(* get_int returns n when the bytes are the decimal digits of n and fails with          *)
(* ValueError when they hold a byte no integer literal has; get_str returns the text    *)
(* whose UTF-8 encoding the bytes are and fails with UnicodeDecodeError when a byte is  *)
(* one no UTF-8 text has; a failing retrieval leaves the database and the calls as they *)
(* were.  (On the two history keys, which hold lists, the typed retrieval fails with    *)
(* the server's wrong-type error before any decoding.)                                  *)
C12_TypedRetrieval ==
    [][(last'.op \in TypedOps /\ HoldsText(redis, last'.key)) =>
          LET raw == redis.strs[KeyBytes(last'.key)]
              res == last'.result
          IN  /\ last'.op = "get_int" =>
                    /\ res.t \in {"int", "ValueError"}
                    /\ (raw # <<>> /\ raw[1] # 48 /\ \A i \in 1..Len(raw) : IsDigit(raw[i]))
                           => (res.t = "int" /\ IntRepr(res.v[1]) = raw)
                    /\ (\E i \in 1..Len(raw) : ~IsDigit(raw[i]) /\ ~IsSpace(raw[i]) /\ raw[i] \notin {43, 45, 95})
                           => res = Raised("ValueError")
              /\ last'.op = "get_str" =>
                    /\ res.t \in {"str", "UnicodeDecodeError"}
                    /\ (\A i \in 1..Len(raw) : raw[i] < 128) => res = PyStr(raw)
                    /\ (\E i \in 1..Len(raw) : raw[i] >= 245) => res = Raised("UnicodeDecodeError")
                    /\ res.t = "str" => encode_utf8(res.v) = raw
              /\ IsRaised(res) => (redis' = redis /\ calls' = calls /\ proc' = proc /\ issued' = issued)]_vars

(* get_int of the key of store('é') has failed with ValueError, and the record, the *)
(* counter and the histories are in place                                           *)
C12_Witness ==
    /\ last.op = "get_int" /\ last.key = Uuid(1)
    /\ last.result = Raised("ValueError")
    /\ HoldsText(redis, Uuid(1)) /\ redis.strs[KeyBytes(Uuid(1))] = <<195, 169>>
    /\ Counter(redis) = 1 /\ Len(InList(redis)) = 1 /\ Len(OutList(redis)) = 1

(* ---------------- C13 ---------------- *)
(* C13: a step in which get, get_str or get_int is called, for a present or an absent *)
(* key and whatever it yields, leaves the counter, both history lists and every       *)
(* record as they were: the string values of the database (the counter and the        *)
(* records) and its lists (the two histories) are the same after the step.            *)
C13_RetrievalReadOnly ==
    [][last'.op \in RetrievalOps =>
          /\ redis'.strs = redis.strs
          /\ redis'.lists = redis.lists]_vars

(* get_str of a key no call generated was called after one call of store: it gave None, *)
(* and the record, the counter and one entry in each list are there                     *)
C13_Witness ==
    /\ last.op = "get_str" /\ last.key = Uuid(2) /\ last.result = PyNone
    /\ ~Present(redis, Uuid(2)) /\ HoldsText(redis, Uuid(1))
    /\ Counter(redis) = 1 /\ Len(InList(redis)) = 1 /\ Len(OutList(redis)) = 1

(* ---------------- C14 ---------------- *)
(* C14: in any interleaving of store, get, get_str, get_int and replay, a step that is *)
(* not the construction of a Cache neither lowers the counter nor returns it to 0: the *)
(* counter only goes down in a step that constructs a Cache.                           *)
C14_CounterMonotone ==
    [][redis'.strs # redis.strs =>
          LET before == Counter(redis)
              after == Counter(redis')
          IN  /\ ninst' = ninst => after >= before
              /\ (ninst' = ninst /\ before > 0) => after > 0
              /\ after < before => (ninst' = ninst + 1 /\ after = 0)]_vars

(* the counter is 2 after two calls of store, and a replay that ran since printed both calls *)
C14_Witness ==
    /\ Counter(redis) = 2
    /\ last.op = "replay" /\ Len(last.printed) = 3
    /\ ninst = 1

(* ---------------- C15 ---------------- *)
(* the calls entered since the last construction through the Cache object number n *)
Via(n) == {i \in 1..Len(NowCalls) : NowCalls[i].inst = n}

(* C15: the counter and the histories are shared by all Cache objects.  Whenever the   *)
(* single thread is idle, the counter equals the number of calls of store made since   *)
(* the last construction through any object, those constructed earlier included, and   *)
(* the two lists hold the arguments and the keys of all these calls in the one order   *)
(* in which they were made.                                                            *)
C15_SharedAcrossInstances ==
    SeqIdle =>
        /\ Counter(redis) = Cardinality(UNION {Via(n) : n \in 1..ninst})
        /\ UNION {Via(n) : n \in 1..ninst} = 1..Len(NowCalls)
        /\ Len(InList(redis)) = Len(NowCalls) /\ Len(OutList(redis)) = Len(NowCalls)
        /\ \A n \in 1..ninst : \A i \in Via(n) :
              /\ InList(redis)[i] = Recorded(NowCalls[i].args)
              /\ OutList(redis)[i] = KeyBytes(NowCalls[i].key)

(* after the second Cache was constructed, store was called through it and then through *)
(* the first one: the counter is 2 and each list holds the two calls in that order      *)
C15_Witness ==
    /\ SeqIdle /\ ninst = 2
    /\ Len(NowCalls) = 2 /\ NowCalls[1].inst = 2 /\ NowCalls[2].inst = 1
    /\ Counter(redis) = 2
    /\ InList(redis) = <<Recorded(NowCalls[1].args), Recorded(NowCalls[2].args)>>
    /\ OutList(redis) = <<KeyBytes(NowCalls[1].key), KeyBytes(NowCalls[2].key)>>

(* ---------------- C16 ---------------- *)
(* every command the call applied was applied since the last construction *)
Unflushed(call) == \A j \in 1..Len(call.era) : call.era[j] = ninst

(* C16: a call whose history append raises ends raised, without a key returned, and what *)
(* it applied before stays applied.  If the input append raised, the call applied the    *)
(* increment only and wrote no record.  If the output append raised, the call applied    *)
(* the increment, the input append and the record write: unless a construction flushed   *)
(* them, the counter counts the call, its arguments are in the input list, and its       *)
(* record is in the database under a key that no call returned and that is not in the    *)
(* output list.                                                                          *)
C16_AppendFailure ==
    \A i \in 1..Len(calls) :
        LET call == calls[i] IN
        /\ call.failed = "rpush_in" =>
              /\ call.status = "raised" /\ call.ret = PyNone
              /\ call.done = <<"incr">> /\ call.key = <<>>
              /\ Unflushed(call) => (i \in Incremented /\ Counter(redis) >= 1)
        /\ call.failed = "rpush_out" =>
              /\ call.status = "raised" /\ call.ret = PyNone
              /\ call.done = <<"incr", "rpush_in", "set">>
              /\ call.key \in issued /\ call.key \notin ReturnedKeys
              /\ Unflushed(call) =>
                    /\ i \in Incremented /\ Counter(redis) >= 1
                    /\ Recorded(call.args) \in Elems(InList(redis))
                    /\ HoldsText(redis, call.key)
                    /\ redis.strs[KeyBytes(call.key)] = RedisEncode(DataOf(call))
                    /\ KeyBytes(call.key) \notin Elems(OutList(redis))

(* store(42) raised at the output append: the counter is 1, the input list holds (42,), *)
(* the output list is empty and the record 42 is under the key a, which was not returned *)
C16_Witness ==
    /\ Len(calls) = 1 /\ ninst = 1
    /\ calls[1].status = "raised" /\ calls[1].failed = "rpush_out" /\ calls[1].ret = PyNone
    /\ calls[1].args = <<PyInt(42)>> /\ calls[1].key = Uuid(1)
    /\ Counter(redis) = 1
    /\ InList(redis) = <<(<<40, 52, 50, 44, 41>>)>>
    /\ OutList(redis) = <<>>
    /\ redis.strs[KeyBytes(Uuid(1))] = <<52, 50>>

(* ---------------- C17 ---------------- *)
(* no Cache was constructed between the entry of a call and a command of that call *)
NoConstructionInFlight ==
    \A i \in 1..Len(calls) :
        /\ \A j \in 1..Len(calls[i].era) : calls[i].era[j] = calls[i].epoch
        /\ calls[i].status = "running" => calls[i].epoch = ninst

(* the calls since the last construction that are in flight or raised after their input append *)
Unpaired ==
    {i \in 1..Len(calls) :
        /\ calls[i].epoch = ninst
        /\ calls[i].status = "running" \/ (calls[i].status = "raised" /\ Did(calls[i], "rpush_in"))}

(* C17: in every state of any interleaving of concurrent callers, with failing commands, *)
(* in which no Cache was constructed while a call was in flight, the counter is at least *)
(* the length of the input list, which is at least the length of the output list, and    *)
(* the input list is longer than the output list by at most the number of calls that are *)
(* in flight or have raised after their input append.                                    *)
C17_Ordering ==
    NoConstructionInFlight =>
        /\ Counter(redis) >= Len(InList(redis))
        /\ Len(InList(redis)) >= Len(OutList(redis))
        /\ Len(InList(redis)) - Len(OutList(redis)) <= Cardinality(Unpaired)

(* two concurrent calls: one raised at the record write, the other is past its input *)
(* append; the counter is 2, the input list has two entries, the output list none    *)
C17_Witness ==
    /\ NoConstructionInFlight
    /\ Len(calls) = 2
    /\ \E i, k \in 1..2 :
          /\ calls[i].status = "raised" /\ calls[i].failed = "set"
          /\ calls[k].status = "running" /\ Did(calls[k], "rpush_in")
    /\ Counter(redis) = 2 /\ Len(InList(redis)) = 2 /\ Len(OutList(redis)) = 0
    /\ Cardinality(Unpaired) = 2

(* ---------------- C18 ---------------- *)
(* the number of Cache objects there were when the call applied the step *)
EraOf(call, step) == call.era[CHOOSE j \in 1..Len(call.done) : call.done[j] = step]

(* the call returned, a Cache was constructed between its input append and its output *)
(* append, and none since the output append                                           *)
FlushedInFlight(call) ==
    /\ call.status = "returned"
    /\ EraOf(call, "rpush_in") < EraOf(call, "rpush_out")
    /\ EraOf(call, "rpush_out") = ninst

(* no other call has applied a command since the last construction *)
NothingElseRan(i) ==
    \A k \in 1..Len(calls) : k # i => \A j \in 1..Len(calls[k].era) : calls[k].era[j] < ninst

OnlyWriteFailed(k) ==
    /\ SeqIdle
    /\ k \in 1..Len(NowCalls)
    /\ NowCalls[k].status = "raised" /\ NowCalls[k].failed = "set"
    /\ \A n \in 1..Len(NowCalls) : n # k => NowCalls[n].status = "returned"

(* C19: for a single thread, when the record write of the k-th call raises after its    *)
(* input was appended, nothing is undone: the counter counts the call and its input     *)
(* stays at position k.  From then until the next construction the input list is one    *)
(* entry longer than the output list, the output of every later call sits at the        *)
(* position of the input of the call before it, and the pairs formed by position, which *)
(* replay prints, join from position k on the input of one call with the key of the     *)
(* next.                                                                                *)
C19_ShiftedPairing ==
    \A k \in 1..Len(NowCalls) :
        OnlyWriteFailed(k) =>
            LET ins == InList(redis)
                outs == OutList(redis)
            IN  /\ Counter(redis) = Len(NowCalls)
                /\ Len(ins) = Len(NowCalls)
                /\ Len(ins) = Len(outs) + 1
                /\ \A n \in 1..Len(NowCalls) : ins[n] = Recorded(NowCalls[n].args)
                /\ \A n \in 1..(k - 1) : outs[n] = KeyBytes(NowCalls[n].key)
                /\ \A n \in (k + 1)..Len(NowCalls) :
                      /\ outs[n - 1] = KeyBytes(NowCalls[n].key)
                      /\ ins[n - 1] = Recorded(NowCalls[n - 1].args)
                /\ Len(Zip(ins, outs)) = Len(NowCalls) - 1
                /\ \A p \in k..(Len(NowCalls) - 1) :
                      Zip(ins, outs)[p] = <<Recorded(NowCalls[p].args), KeyBytes(NowCalls[p + 1].key)>>
                /\ last.op = "replay" =>
                      /\ last.inputs = ins /\ last.outputs = outs
                      /\ \A p \in k..(Len(last.printed) - 1) :
                            last.printed[p + 1] = ReplayLine(Recorded(NowCalls[p].args),
                                                             KeyBytes(NowCalls[p + 1].key))

(* store(42) raised at the record write, store('é') and store(data=1.5) then returned a *)
(* and b: replay printed three inputs in the header and two lines, 42 with a and 'é'    *)
(* with b                                                                               *)
C19_Witness ==
    /\ OnlyWriteFailed(1) /\ Len(NowCalls) = 3
    /\ NowCalls[1].args = <<PyInt(42)>> /\ NowCalls[2].args = <<PyStr(<<233>>)>> /\ NowCalls[3].args = <<>>
    /\ InList(redis) = <<(<<40, 52, 50, 44, 41>>), (<<40, 39, 195, 169, 39, 44, 41>>), (<<40, 41>>)>>
    /\ OutList(redis) = <<(<<97>>), (<<98>>)>>
    /\ last.op = "replay" /\ ~last.error
    /\ last.printed = <<QualName \o WasCalled \o <<51>> \o Times,
                         QualName \o <<40, 42, 40, 52, 50, 44, 41, 41, 32, 45, 62, 32, 97>>,
                         QualName \o <<40, 42, 40, 39, 233, 39, 44, 41, 41, 32, 45, 62, 32, 98>> >>

(* ---------------- C20 ---------------- *)
(* the calls that appended the entry at position p of the output list *)
Appenders(p) ==
    {i \in 1..Len(calls) : DidNow(calls[i], "rpush_out") /\ KeyBytes(calls[i].key) = OutList(redis)[p]}

(* the record of the call is in the database, with the data passed to the call *)
RecordHeld(call) ==
    /\ HoldsText(redis, call.key)
    /\ redis.strs[KeyBytes(call.key)] = RedisEncode(DataOf(call))

(* C20 as stated: every entry of the output list (all of them were appended since the *)
(* last construction) is the key of the call that appended it, and under it there is  *)
(* a record holding the data passed to that call.                                     *)
C20_Original ==
    \A p \in 1..Len(OutList(redis)) :
        /\ Appenders(p) # {}
        /\ \A i \in Appenders(p) : RecordHeld(calls[i])

(* C20 amended: every entry of the output list is the key of the one call that appended *)
(* it, and if no Cache was constructed since that call wrote its record, there is a     *)
(* record under the key, holding the data passed to the call.                           *)
C20_OutputsHaveRecords ==
    \A p \in 1..Len(OutList(redis)) :
        /\ Cardinality(Appenders(p)) = 1
        /\ \A i \in Appenders(p) : DidNow(calls[i], "set") => RecordHeld(calls[i])

(* two calls returned a and b since the second Cache was constructed; the second wrote *)
(* its record after the construction and the record is there with its data, the first  *)
(* wrote before it and has none                                                        *)
C20_Witness ==
    /\ Len(calls) = 2 /\ ninst = 2
    /\ calls[1].status = "returned" /\ calls[2].status = "returned"
    /\ OutList(redis) = <<KeyBytes(calls[1].key), KeyBytes(calls[2].key)>>
    /\ DidNow(calls[2], "set") /\ RecordHeld(calls[2])
    /\ redis.strs[KeyBytes(calls[2].key)] = <<195, 169>>
    /\ ~DidNow(calls[1], "set") /\ ~Present(redis, calls[1].key)

====
